---- MODULE Spec2Model ----
(***************************************************************************)
(* A model of the PR summarizer (summarize_pr.py): the PR data fetcher,    *)
(* the risk and reviewer heuristics, the three summary generators and the  *)
(* orchestrator summarize_pr.                                              *)
(*                                                                         *)
(* A Python str is modelled as a sequence of one-character strings, so     *)
(* that lowercasing, substring search, slicing and joining are computed    *)
(* as the code computes them.  An Optional value is None or Some(v).       *)
(***************************************************************************)
EXTENDS Integers, Sequences, FiniteSets, TLC

\* ------------------------------------------------------------------------
\* Python values
\* ------------------------------------------------------------------------

None == [some |-> FALSE]

Some(v) == [some |-> TRUE, val |-> v]

\* bool(x) of an Optional[str] text: None and the empty str are falsy
Truthy(x) == x.some /\ x.val # <<>>

\* bool(x) of an Optional[str] credential, an opaque string
TruthyToken(x) == x.some /\ x.val # ""

Min(a, b) == IF a <= b THEN a ELSE b

\* s[:n]
Take(s, n) == SubSeq(s, 1, Min(n, Len(s)))

Range(s) == {s[i] : i \in DOMAIN s}

RECURSIVE Cat(_)
\* "".join(parts)
Cat(parts) == IF parts = <<>> THEN <<>> ELSE Head(parts) \o Cat(Tail(parts))

RECURSIVE Join(_, _)
\* sep.join(parts)
Join(sep, parts) ==
    IF parts = <<>> THEN <<>>
    ELSE IF Len(parts) = 1 THEN parts[1]
    ELSE parts[1] \o sep \o Join(sep, Tail(parts))

UpperChars ==
    <<"A","B","C","D","E","F","G","H","I","J","K","L","M",
      "N","O","P","Q","R","S","T","U","V","W","X","Y","Z">>

LowerChars ==
    <<"a","b","c","d","e","f","g","h","i","j","k","l","m",
      "n","o","p","q","r","s","t","u","v","w","x","y","z">>

LowerChar(c) ==
    IF \E i \in DOMAIN UpperChars : UpperChars[i] = c
    THEN LowerChars[CHOOSE i \in DOMAIN UpperChars : UpperChars[i] = c]
    ELSE c

\* s.lower()
Lower(s) == [i \in DOMAIN s |-> LowerChar(s[i])]

\* `k in s` for two strs
Contains(s, k) ==
    \/ k = <<>>
    \/ \E i \in 1..(Len(s) - Len(k) + 1) :
           /\ s[i] = k[1]
           /\ \A j \in 1..Len(k) : s[i + j - 1] = k[j]

\* s.endswith(suffix)
EndsWith(s, suffix) ==
    /\ Len(suffix) <= Len(s)
    /\ \A j \in 1..Len(suffix) : s[Len(s) - Len(suffix) + j] = suffix[j]

Digits == <<"0","1","2","3","4","5","6","7","8","9">>

RECURSIVE Str(_)
\* str(n) of a non-negative int, as an f-string renders it
Str(n) == IF n < 10 THEN <<Digits[n + 1]>>
          ELSE Str(n \div 10) \o <<Digits[(n % 10) + 1]>>

\* the index of the last occurrence of character c in s, 0 when absent
LastIndexOf(s, c) ==
    IF \E i \in DOMAIN s : s[i] = c
    THEN CHOOSE i \in DOMAIN s : s[i] = c /\ \A j \in DOMAIN s : s[j] = c => j <= i
    ELSE 0

\* the index of the first occurrence of character c in s, 0 when absent
FirstIndexOf(s, c) ==
    IF \E i \in DOMAIN s : s[i] = c
    THEN CHOOSE i \in DOMAIN s : s[i] = c /\ \A j \in DOMAIN s : s[j] = c => i <= j
    ELSE 0

\* ------------------------------------------------------------------------
\* assess_risk_level
\* ------------------------------------------------------------------------

high_risk_keywords ==
    << <<"a","u","t","h">>,
       <<"a","u","t","h","e","n","t","i","c","a","t","i","o","n">>,
       <<"s","e","c","u","r","i","t","y">>,
       <<"p","a","s","s","w","o","r","d">>,
       <<"t","o","k","e","n">>,
       <<"c","r","e","d","e","n","t","i","a","l">>,
       <<"p","a","y","m","e","n","t">>,
       <<"b","i","l","l","i","n","g">>,
       <<"c","h","a","r","g","e">>,
       <<"t","r","a","n","s","a","c","t","i","o","n">>,
       <<"d","a","t","a","b","a","s","e">>,
       <<"m","i","g","r","a","t","i","o","n">>,
       <<"s","c","h","e","m","a">>,
       <<"s","q","l">>,
       <<"c","o","n","f","i","g">>,
       <<"e","n","v","i","r","o","n","m","e","n","t">>,
       <<"s","e","c","r","e","t">>,
       <<"k","e","y">> >>

medium_risk_keywords ==
    << <<"a","p","i">>,
       <<"e","n","d","p","o","i","n","t">>,
       <<"r","o","u","t","e">>,
       <<"c","o","n","t","r","o","l","l","e","r">>,
       <<"d","e","p","l","o","y">>,
       <<"i","n","f","r","a","s","t","r","u","c","t","u","r","e">>,
       <<"d","o","c","k","e","r">>,
       <<"k","u","b","e","r","n","e","t","e","s">>,
       <<"t","e","s","t">>,
       <<"t","e","s","t","i","n","g">>,
       <<"s","p","e","c">> >>

critical_extensions ==
    << <<".","p","y">>, <<".","j","s">>, <<".","t","s">>,
       <<".","j","a","v","a">>, <<".","g","o">>, <<".","r","b">> >>

SPACE == <<" ">>

\* (title + " " + body).lower() + " " + " ".join(filenames lowercased)
AllContent(files, title, body) ==
    LET content   == Lower(title \o SPACE \o body)
        filenames == Join(SPACE, [i \in DOMAIN files |-> Lower(files[i].filename)])
    IN  content \o SPACE \o filenames

\* sum(1 for keyword in keywords if keyword in all_content)
KeywordCount(keywords, all_content) ==
    Cardinality({i \in DOMAIN keywords : Contains(all_content, keywords[i])})

IsCriticalFile(f) ==
    \E i \in DOMAIN critical_extensions : EndsWith(f.filename, critical_extensions[i])

\* sum(1 for f in files if any(f["filename"].endswith(ext) ...))
CriticalFiles(files) == Cardinality({i \in DOMAIN files : IsCriticalFile(files[i])})

HighFileCutoff == 10

MediumFileCutoff == 5

MediumKeywordCutoff == 2

\* the High branch condition with the keyword test dropped
IsHighFilesOnly(high_risk_count, critical_files) == critical_files > HighFileCutoff

\* if high_risk_count > 0 or critical_files > 10
IsHigh(high_risk_count, critical_files) ==
    high_risk_count > 0 \/ critical_files > HighFileCutoff

\* the Medium branch condition with `and` in place of `or`
IsMediumBoth(medium_risk_count, critical_files) ==
    medium_risk_count > MediumKeywordCutoff /\ critical_files > MediumFileCutoff

\* elif medium_risk_count > 2 or critical_files > 5
IsMedium(medium_risk_count, critical_files) ==
    medium_risk_count > MediumKeywordCutoff \/ critical_files > MediumFileCutoff

\* An f-string is modelled by its template and the interpolated values, each
\* value under the name of the expression it renders.
HighReasoning(high_risk_count, critical_files) ==
    [template |-> "Touches {high_risk_count} high-risk areas or {critical_files} critical files",
     values   |-> << <<"high_risk_count", Str(high_risk_count)>>,
                     <<"critical_files", Str(critical_files)>> >>]

MediumReasoning(medium_risk_count) ==
    [template |-> "Moderate changes affecting {medium_risk_count} areas",
     values   |-> << <<"medium_risk_count", Str(medium_risk_count)>> >>]

LowReasoning ==
    [template |-> "Limited scope, low-risk changes", values |-> <<>>]

\* returns (risk_level, reasoning)
assess_risk_level(files, title, body) ==
    LET all_content       == AllContent(files, title, body)
        high_risk_count   == KeywordCount(high_risk_keywords, all_content)
        medium_risk_count == KeywordCount(medium_risk_keywords, all_content)
        critical_files    == CriticalFiles(files)
    IN  IF IsHigh(high_risk_count, critical_files)
        THEN <<"High", HighReasoning(high_risk_count, critical_files)>>
        ELSE IF IsMedium(medium_risk_count, critical_files)
        THEN <<"Medium", MediumReasoning(medium_risk_count)>>
        ELSE <<"Low", LowReasoning>>

\* ------------------------------------------------------------------------
\* suggest_reviewers
\* ------------------------------------------------------------------------

KW_auth == <<"a","u","t","h">>

KW_security == <<"s","e","c","u","r","i","t","y">>

KW_test == <<"t","e","s","t">>

KW_frontend == <<"f","r","o","n","t","e","n","d">>

KW_ui == <<"u","i">>

KW_backend == <<"b","a","c","k","e","n","d">>

KW_api == <<"a","p","i">>

SLASH == "/"

\* "/".join(filename.split("/")[:-1]): the path before the last "/"
DirPath(filename) ==
    LET i == LastIndexOf(filename, SLASH)
    IN  IF i = 0 THEN <<>> ELSE SubSeq(filename, 1, i - 1)

\* The per-directory file counts the function builds and never reads.
Directories(files) ==
    LET dirs == {DirPath(files[i].filename) : i \in DOMAIN files} \ {<<>>}
    IN  [d \in dirs |-> Cardinality({i \in DOMAIN files : DirPath(files[i].filename) = d})]

\* any(k in f["filename"].lower() for f in files), for one of the keywords
AnyFileContains(files, keywords) ==
    \E i \in DOMAIN files : \E k \in keywords : Contains(Lower(files[i].filename), k)

ReviewerLimit == 3

\* the return statement without the [:3] slice
CapSuggestionsUncapped(suggestions) == suggestions

\* suggestions[:3]
CapSuggestions(suggestions) == Take(suggestions, ReviewerLimit)

suggest_reviewers(files) ==
    LET s1 == IF AnyFileContains(files, {KW_auth, KW_security})
              THEN <<"security-team">> ELSE <<>>
        s2 == IF AnyFileContains(files, {KW_test})
              THEN Append(s1, "qa-team") ELSE s1
        s3 == IF AnyFileContains(files, {KW_frontend, KW_ui})
              THEN Append(s2, "frontend-team") ELSE s2
        s4 == IF AnyFileContains(files, {KW_backend, KW_api})
              THEN Append(s3, "backend-team") ELSE s3
    IN  CapSuggestions(s4)

\* ------------------------------------------------------------------------
\* The prompt of the two LLM generators
\* ------------------------------------------------------------------------

NEWLINE == <<"\n">>

\* f"- {f['filename']} ({f['status']}, +{f['additions']}/-{f['deletions']})"
FileLine(f) ==
    Cat(<< <<"-"," ">>, f.filename, <<" ","(">>, f.status, <<","," ","+">>,
           Str(f.additions), <<"/","-">>, Str(f.deletions), <<")">> >>)

\* f"- {c['sha']}: {c['message']}"
CommitLine(c) == Cat(<< <<"-"," ">>, c.sha, <<":"," ">>, c.message >>)

OpenAIFileLimit == 20

OpenAICommitLimit == 10

OpenAIBodyLimit == 500

\* files_summary of summarize_with_openai
OpenAIFilesSummary(pr_data) ==
    LET shown == Take(pr_data.files, OpenAIFileLimit)
    IN  Join(NEWLINE, [i \in DOMAIN shown |-> FileLine(shown[i])])

\* commits_summary of summarize_with_openai
OpenAICommitsSummary(pr_data) ==
    LET shown == Take(pr_data.commits, OpenAICommitLimit)
    IN  Join(NEWLINE, [i \in DOMAIN shown |-> CommitLine(shown[i])])

\* the prompt f-string of summarize_with_openai
OpenAIPrompt(pr_data) ==
    [intro         |-> "Analyze this GitHub Pull Request and provide a concise summary:",
     title         |-> pr_data.title,
     description   |-> Take(pr_data.body, OpenAIBodyLimit),
     author        |-> pr_data.author,
     files_changed |-> <<Str(pr_data.changed_files), Str(pr_data.additions),
                         Str(pr_data.deletions)>>,
     files         |-> OpenAIFilesSummary(pr_data),
     commits       |-> OpenAICommitsSummary(pr_data),
     instructions  |-> <<"Provide a structured summary with:",
                         "1. TL;DR (one sentence)",
                         "2. Files Changed + Purpose (brief description of what each major file does)",
                         "3. Risk Level (Low/Medium/High) with reasoning",
                         "4. Suggested Reviewers (based on file ownership/patterns)",
                         "5. Key Changes (3-5 bullet points)",
                         "6. Testing Notes (what should be tested)",
                         "Format as Markdown.">>]

OllamaFileLimit == 20

OllamaCommitLimit == 10

OllamaBodyLimit == 500

\* files_summary with the file list cut at the commit limit
OllamaFilesSummaryShort(pr_data) ==
    LET shown == Take(pr_data.files, OllamaCommitLimit)
    IN  Join(NEWLINE, [i \in DOMAIN shown |-> FileLine(shown[i])])

\* files_summary of summarize_with_ollama
OllamaFilesSummary(pr_data) ==
    LET shown == Take(pr_data.files, OllamaFileLimit)
    IN  Join(NEWLINE, [i \in DOMAIN shown |-> FileLine(shown[i])])

\* commits_summary of summarize_with_ollama
OllamaCommitsSummary(pr_data) ==
    LET shown == Take(pr_data.commits, OllamaCommitLimit)
    IN  Join(NEWLINE, [i \in DOMAIN shown |-> CommitLine(shown[i])])

\* the prompt f-string of summarize_with_ollama
OllamaPrompt(pr_data) ==
    [intro         |-> "Analyze this GitHub Pull Request and provide a concise summary:",
     title         |-> pr_data.title,
     description   |-> Take(pr_data.body, OllamaBodyLimit),
     author        |-> pr_data.author,
     files_changed |-> <<Str(pr_data.changed_files), Str(pr_data.additions),
                         Str(pr_data.deletions)>>,
     files         |-> OllamaFilesSummary(pr_data),
     commits       |-> OllamaCommitsSummary(pr_data),
     instructions  |-> <<"Provide a structured summary with:",
                         "1. TL;DR (one sentence)",
                         "2. Files Changed + Purpose (brief description of what each major file does)",
                         "3. Risk Level (Low/Medium/High) with reasoning",
                         "4. Suggested Reviewers (based on file ownership/patterns)",
                         "5. Key Changes (3-5 bullet points)",
                         "6. Testing Notes (what should be tested)",
                         "Format as Markdown.">>]

\* ------------------------------------------------------------------------
\* summarize_with_basic
\* ------------------------------------------------------------------------

DOT == "."

NoExtension == <<"n","o"," ","e","x","t","e","n","s","i","o","n">>

\* Path(filename).name: the final path component
PathName(filename) ==
    SubSeq(filename, LastIndexOf(filename, SLASH) + 1, Len(filename))

\* Path(filename).suffix: from the last dot of the name, unless that dot is
\* the name's first or last character
PathSuffix(filename) ==
    LET name == PathName(filename)
        i    == LastIndexOf(name, DOT)
    IN  IF 1 < i /\ i < Len(name) THEN SubSeq(name, i, Len(name)) ELSE <<>>

\* Path(file["filename"]).suffix or "no extension"
FileExt(f) ==
    LET suffix == PathSuffix(f.filename)
    IN  IF suffix # <<>> THEN suffix ELSE NoExtension

\* the elements of a set of indices, as an ascending sequence
Ascending(S) ==
    [p \in 1..Cardinality(S) |->
        CHOOSE i \in S : Cardinality({j \in S : j < i}) = p - 1]

\* file_types.items(): each extension with its count, in the order the
\* extensions were first inserted into the dict
FileTypes(files) ==
    LET first == {i \in DOMAIN files :
                     \A j \in 1..(i - 1) : FileExt(files[j]) # FileExt(files[i])}
        order == Ascending(first)
    IN  [p \in DOMAIN order |->
            <<FileExt(files[order[p]]),
              Cardinality({j \in DOMAIN files :
                              FileExt(files[j]) = FileExt(files[order[p]])})>>]

\* sorted(items, key=..., reverse=True) where keys[i] is the key of items[i]:
\* descending by key, equal keys in their original order
SortedDescending(items, keys) ==
    LET Before(j, i) == keys[j] > keys[i] \/ (keys[j] = keys[i] /\ j < i)
        rank(i)      == 1 + Cardinality({j \in DOMAIN items : Before(j, i)})
    IN  [p \in DOMAIN items |-> items[CHOOSE i \in DOMAIN items : rank(i) = p]]

TypesLimit == 5

MajorFilesLimit == 10

\* sorted(file_types.items(), key=lambda x: x[1], reverse=True)[:5]
TopFileTypes(files) ==
    LET items == FileTypes(files)
    IN  Take(SortedDescending(items, [i \in DOMAIN items |-> items[i][2]]), TypesLimit)

\* sorted(...)[::-1] on an ascending sort: descending by change size, but
\* files of equal size come out in the reverse of their fetch order
SortedFilesTiesReversed(files) ==
    LET size(i)      == files[i].additions + files[i].deletions
        Before(j, i) == size(j) > size(i) \/ (size(j) = size(i) /\ j > i)
        rank(i)      == 1 + Cardinality({j \in DOMAIN files : Before(j, i)})
    IN  [p \in DOMAIN files |-> files[CHOOSE i \in DOMAIN files : rank(i) = p]]

\* sorted(pr_data["files"], key=lambda x: x["additions"] + x["deletions"], reverse=True)
SortedFiles(files) ==
    SortedDescending(files, [i \in DOMAIN files |-> files[i].additions + files[i].deletions])

\* the files of the dict after an in-place files.sort(...) instead of sorted(...)
FilesAfterSortInPlace(files) == SortedFiles(files)

\* pr_data["files"] once sorted_files has been built: sorted() returns a new
\* list and leaves its argument as it was
FilesAfterSort(files) == files

\* the snapshot dict as summarize_with_basic leaves it
SnapshotAfterBasic(pr_data) ==
    [pr_data EXCEPT !.files = FilesAfterSort(pr_data.files)]

\* the Markdown text, section by section
summarize_with_basic(pr_data) ==
    LET risk                == assess_risk_level(pr_data.files, pr_data.title, pr_data.body)
        suggested_reviewers == suggest_reviewers(pr_data.files)
        types               == TopFileTypes(pr_data.files)
        major               == Take(SortedFiles(pr_data.files), MajorFilesLimit)
    IN  [heading      |-> pr_data.title,
         tldr         |-> <<pr_data.title, pr_data.author, Str(pr_data.changed_files),
                            Str(pr_data.additions), Str(pr_data.deletions)>>,
         total_files  |-> Str(pr_data.changed_files),
         lines        |-> <<Str(pr_data.additions), Str(pr_data.deletions)>>,
         file_types   |-> [i \in DOMAIN types |-> <<types[i][1], Str(types[i][2])>>],
         major_files  |-> [i \in DOMAIN major |->
                             <<major[i].filename, major[i].status,
                               Str(major[i].additions), Str(major[i].deletions)>>],
         risk_level   |-> risk[1],
         risk_reasoning |-> risk[2],
         reviewers    |-> IF suggested_reviewers # <<>>
                          THEN suggested_reviewers
                          ELSE <<"Review based on file ownership">>,
         key_changes  |-> <<Str(pr_data.changed_files), Str(Len(pr_data.commits)),
                            pr_data.base_branch, pr_data.head_branch>>,
         labels       |-> IF pr_data.labels # <<>> THEN Some(pr_data.labels) ELSE None,
         testing      |-> <<"Review changes in critical files",
                            "Test affected functionality",
                            "Verify no breaking changes",
                            "Check for proper error handling">>]

\* ------------------------------------------------------------------------
\* get_pr_data: from what the hosting API returns to the snapshot dict
\* ------------------------------------------------------------------------

PatchLimit == 500

ShaLength == 7

\* file.patch[:500] if file.patch else None
TruncatedPatch(patch) ==
    IF Truthy(patch) THEN Some(Take(patch.val, PatchLimit)) ELSE None

\* commit.commit.message.split("\n")[0]
FirstLine(message) ==
    LET i == FirstIndexOf(message, "\n")
    IN  IF i = 0 THEN message ELSE SubSeq(message, 1, i - 1)

FileChange(file) ==
    [filename  |-> file.filename,
     status    |-> file.status,
     additions |-> file.additions,
     deletions |-> file.deletions,
     patch     |-> TruncatedPatch(file.patch)]

CommitInfo(commit) ==
    [sha     |-> Take(commit.sha, ShaLength),
     message |-> FirstLine(commit.message),
     author  |-> commit.author]

\* the dict get_pr_data returns for the pull request `pr` of the API
get_pr_data(pr) ==
    [title         |-> pr.title,
     body          |-> IF Truthy(pr.body) THEN pr.body.val ELSE <<>>,
     author        |-> pr.user,
     state         |-> pr.state,
     created_at    |-> pr.created_at,
     files         |-> [i \in DOMAIN pr.files |-> FileChange(pr.files[i])],
     commits       |-> [i \in DOMAIN pr.commits |-> CommitInfo(pr.commits[i])],
     additions     |-> pr.additions,
     deletions     |-> pr.deletions,
     changed_files |-> pr.changed_files,
     base_branch   |-> pr.base,
     head_branch   |-> pr.head,
     labels        |-> pr.labels,
     reviewers     |-> pr.requested_reviewers]

\* ------------------------------------------------------------------------
\* The pull requests the hosting API serves in this model
\* ------------------------------------------------------------------------

\* Bounds of the input space.
MaxPad == 11

BodySlack == 2

FileSlack == 2

CommitSlack == 1

PatchSlack == 1

Title_docs == <<"U","p","d","a","t","e"," ","d","o","c","s">>

Title_auth == <<"F","i","x"," ","l","o","g","i","n"," ","A","u","t","h"," ","b","u","g">>

Title_deploy == <<"d","o","c","k","e","r"," ","d","e","p","l","o","y"," ","r","o","u","t","e">>

Body_api == <<"a","p","i"," ","s","p","e","c">>

ST_modified == <<"m","o","d","i","f","i","e","d">>

ST_added == <<"a","d","d","e","d">>

ST_removed == <<"r","e","m","o","v","e","d">>

ApiFile(filename, status, additions, deletions, patch) ==
    [filename |-> filename, status |-> status, additions |-> additions,
     deletions |-> deletions, patch |-> patch]

\* a patch of n characters
PatchOf(n) == [i \in 1..n |-> IF i % 3 = 0 THEN "+" ELSE "-"]

F_readme ==
    ApiFile(<<"R","E","A","D","M","E",".","m","d">>, ST_modified, 4, 1,
            Some(PatchOf(PatchLimit + PatchSlack)))

F_intro ==
    ApiFile(<<"d","o","c","s","/","i","n","t","r","o",".","m","d">>, ST_added, 9, 0,
            Some(PatchOf(3)))

F_auth ==
    ApiFile(<<"s","r","c","/","A","u","t","h",".","p","y">>, ST_modified, 3, 2, None)

F_spec ==
    ApiFile(<<"t","e","s","t","s","/","s","p","e","c",".","m","d">>, ST_added, 7, 0,
            Some(<<>>))

F_ui ==
    ApiFile(<<"f","r","o","n","t","e","n","d","/","u","i",".","j","s">>, ST_modified, 1, 4,
            None)

F_api ==
    ApiFile(<<"b","a","c","k","e","n","d","/","a","p","i",".","g","o">>, ST_removed, 0, 5,
            None)

F_make == ApiFile(<<"M","a","k","e","f","i","l","e">>, ST_modified, 2, 2, None)

F_git == ApiFile(<<".","g","i","t","i","g","n","o","r","e">>, ST_added, 1, 0, None)

\* the i-th plain source file m<i>.py; sizes repeat, so some files tie
PadFile(i) ==
    ApiFile(<<"m">> \o Str(i) \o <<".","p","y">>, ST_modified, (i * 3) % 5, i % 2, None)

Pads(n) == [i \in 1..n |-> PadFile(i)]

HexDigits == <<"0","1","2","3","4","5","6","7","8","9","a","b","c","d","e","f">>

\* the i-th commit: a 40-character sha, and a message of several lines
\* for odd i
ApiCommit(i) ==
    [sha     |-> [k \in 1..40 |-> HexDigits[((i * 7 + k * 3) % 16) + 1]],
     message |-> <<"C","o","m","m","i","t"," ">> \o Str(i)
                 \o (IF i % 2 = 1
                     THEN <<"\n","\n","D","e","t","a","i","l","s">> ELSE <<>>),
     author  |-> "dev"]

ApiCommits(n) == [i \in 1..n |-> ApiCommit(i)]

RECURSIVE SumOf(_)
SumOf(ns) == IF ns = <<>> THEN 0 ELSE Head(ns) + SumOf(Tail(ns))

ApiPull(title, body, files, commits) ==
    [title         |-> title,
     body          |-> body,
     user          |-> "octocat",
     state         |-> "open",
     created_at    |-> "2024-01-01T00:00:00",
     files         |-> files,
     commits       |-> commits,
     additions     |-> SumOf([i \in DOMAIN files |-> files[i].additions]),
     deletions     |-> SumOf([i \in DOMAIN files |-> files[i].deletions]),
     changed_files |-> Len(files),
     base          |-> "main",
     head          |-> "feature",
     labels        |-> IF Len(files) % 2 = 1 THEN <<"bug", "urgent">> ELSE <<>>,
     requested_reviewers |-> <<>>]

ReviewerFiles == <<F_auth, F_spec, F_ui, F_api>>

\* the files of ReviewerFiles whose bit is set in mask, in order
Picks(mask) ==
    LET chosen == {i \in DOMAIN ReviewerFiles : (mask \div (2 ^ (i - 1))) % 2 = 1}
        order  == Ascending(chosen)
    IN  [p \in DOMAIN order |-> ReviewerFiles[order[p]]]

\* every combination of the four reviewer patterns
ReviewerPulls ==
    {ApiPull(Title_docs, None, Picks(mask), ApiCommits(1)) : mask \in 0..15}

Texts ==
    {<<Title_docs, None>>, <<Title_auth, Some(<<>>)>>,
     <<Title_deploy, Some(Body_api)>>, <<Title_docs, Some(Body_api)>>}

RiskBases == {<<F_readme, F_intro>>, <<F_spec>>, <<F_make, F_git, F_api>>}

\* keyword hits crossed with 0..MaxPad more source files
RiskPulls ==
    {ApiPull(t[1], t[2], base \o Pads(n), ApiCommits(2)) :
        t \in Texts, base \in RiskBases, n \in 0..MaxPad}

LongBody(n) == [i \in 1..n |-> IF i % 2 = 0 THEN "x" ELSE "y"]

\* bodies, file lists and commit lists around the generators' display caps
PromptPulls ==
    {ApiPull(Title_docs, Some(LongBody(b)), Pads(n), ApiCommits(c)) :
        b \in (OpenAIBodyLimit - 1)..(OpenAIBodyLimit + BodySlack),
        n \in (OpenAIFileLimit - 1)..(OpenAIFileLimit + FileSlack),
        c \in (OpenAICommitLimit - 1)..(OpenAICommitLimit + CommitSlack)}

AllPulls == ReviewerPulls \cup RiskPulls \cup PromptPulls

\* the pull requests a run of the orchestrator may be asked about
UpstreamPulls ==
    {ApiPull(Title_docs, None, <<F_readme, F_intro>>, ApiCommits(1)),
     ApiPull(Title_auth, Some(<<>>), ReviewerFiles \o Pads(MaxPad), ApiCommits(3)),
     ApiPull(Title_deploy, Some(LongBody(OpenAIBodyLimit + BodySlack)),
             Pads(OpenAIFileLimit + FileSlack), ApiCommits(OpenAICommitLimit + CommitSlack))}

\* ------------------------------------------------------------------------
\* State
\* ------------------------------------------------------------------------

VARIABLES
    inv,           \* the arguments of the summarize_pr call
    env_token,     \* os.getenv("GITHUB_TOKEN")
    pc,            \* where the call is
    github_token,  \* the local github_token after line 349
    pr_data,       \* the snapshot dict, None before the fetch returns
    raised,        \* the exception in flight, None when there is none
    result,        \* what the call gave its caller
    stages,        \* the stage functions called so far, in order
    net,           \* the network requests sent so far, in order
    endpoint,      \* how the local inference endpoint behaves
    waited,        \* seconds the request to the local endpoint has been outstanding
    fn,            \* the function a direct caller exercises on a snapshot
    risk,          \* what assess_risk_level returned to that caller
    reviewers,     \* what suggest_reviewers returned
    prompt_openai, \* the prompt summarize_with_openai built
    prompt_ollama, \* the prompt summarize_with_ollama built
    runs           \* what each summarize_with_basic call on the snapshot returned

vars ==
    <<inv, env_token, pc, github_token, pr_data, raised, result, stages, net,
      endpoint, waited, fn, risk, reviewers, prompt_openai, prompt_ollama, runs>>

orch_vars ==
    <<inv, env_token, pc, github_token, raised, result, stages, net, endpoint, waited>>

fn_vars == <<fn, risk, reviewers, prompt_openai, prompt_ollama, runs>>

\* Bounds of the runs.
TickSeconds == 40

MaxRuns == 2

Providers == {"basic", "openai", "ollama", "other"}

NoKwargs == [api_key |-> None, base_url |-> None, model |-> None]

\* the keyword arguments a caller passes along with each provider
KwargsOf(provider) ==
    IF provider = "openai"
    THEN {NoKwargs, [NoKwargs EXCEPT !.api_key = Some("sk-arg")]}
    ELSE IF provider = "ollama"
    THEN {NoKwargs,
          [NoKwargs EXCEPT !.base_url = Some("http://gpu:11434"), !.model = Some("mistral")]}
    ELSE {NoKwargs}

Invocations ==
    {[provider |-> p, github_token |-> t, kwargs |-> k] :
        p \in Providers, t \in {None, Some(""), Some("ghp_arg")},
        k \in UNION {KwargsOf(q) : q \in Providers}}

Pending == [kind |-> "pending"]

Returned(by, text) == [kind |-> "returned", by |-> by, text |-> text]

Raised(e) == [kind |-> "raised", exc |-> e]

Exc(type, msg, stage, cause) ==
    [type |-> type, msg |-> msg, stage |-> stage, cause |-> cause]

Init ==
    /\ inv \in {i \in Invocations : i.kwargs \in KwargsOf(i.provider)}
    /\ env_token \in {None, Some(""), Some("ghp_env")}
    /\ pc = "start"
    /\ github_token = None
    /\ pr_data = None
    /\ raised = None
    /\ result = Pending
    /\ stages = <<>>
    /\ net = <<>>
    /\ endpoint = "unknown"
    /\ waited = 0
    /\ fn = "none"
    /\ risk = None
    /\ reviewers = None
    /\ prompt_openai = None
    /\ prompt_ollama = None
    /\ runs = <<>>

\* ------------------------------------------------------------------------
\* summarize_pr: the credential and the fetch
\* ------------------------------------------------------------------------

\* github_token or os.getenv("GITHUB_TOKEN")
ResolvedToken(arg, env) == IF TruthyToken(arg) THEN arg ELSE env

\* the guard of line 350 testing `is None` in place of falsiness
TokenMissingIsNone(token) == ~token.some

\* if not github_token
TokenMissing(token) == ~TruthyToken(token)

Raise(e) ==
    /\ raised' = Some(e)
    /\ pc' = "raised"

\* line 351: raise ValueError("GITHUB_TOKEN not found ...")
MissingCredential ==
    /\ pc = "start"
    /\ TokenMissing(ResolvedToken(inv.github_token, env_token))
    /\ github_token' = ResolvedToken(inv.github_token, env_token)
    /\ Raise(Exc("ValueError", "GITHUB_TOKEN not found in environment or provided",
                 "summarize_pr", "none"))
    /\ UNCHANGED <<inv, env_token, pr_data, result, stages, net, endpoint, waited>>
    /\ UNCHANGED fn_vars

\* lines 349-350 with a credential at hand
ResolveCredential ==
    /\ pc = "start"
    /\ ~TokenMissing(ResolvedToken(inv.github_token, env_token))
    /\ github_token' = ResolvedToken(inv.github_token, env_token)
    /\ pc' = "fetch"
    /\ UNCHANGED <<inv, env_token, pr_data, raised, result, stages, net, endpoint, waited>>
    /\ UNCHANGED fn_vars

GithubRequest(token, what) == [to |-> "github", token |-> token, what |-> what]

\* the requests of one complete get_pr_data, in the order they are sent
FetchRequests(token) ==
    <<GithubRequest(token, "get_repo"), GithubRequest(token, "get_pull"),
      GithubRequest(token, "get_files"), GithubRequest(token, "get_commits")>>

\* get_pr_data with PyGithub not importable: raises before any request
FetchImportError ==
    /\ pc = "fetch"
    /\ stages' = Append(stages, "get_pr_data")
    /\ Raise(Exc("ImportError", "PyGithub not installed", "get_pr_data", "none"))
    /\ UNCHANGED <<inv, env_token, github_token, pr_data, result, net, endpoint, waited>>
    /\ UNCHANGED fn_vars

\* get_pr_data when the hosting API rejects one of its requests
FetchUpstreamError ==
    /\ pc = "fetch"
    /\ \E k \in 1..Len(FetchRequests(github_token.val)) :
       \E type \in {"BadCredentialsException", "UnknownObjectException"} :
          /\ net' = net \o SubSeq(FetchRequests(github_token.val), 1, k)
          /\ Raise(Exc(type, "upstream", "get_pr_data", "none"))
    /\ stages' = Append(stages, "get_pr_data")
    /\ UNCHANGED <<inv, env_token, github_token, pr_data, result, endpoint, waited>>
    /\ UNCHANGED fn_vars

\* line 355: pr_data = get_pr_data(repo_name, pr_number, github_token)
FetchPullRequest ==
    /\ pc = "fetch"
    /\ \E pr \in UpstreamPulls : pr_data' = Some(get_pr_data(pr))
    /\ stages' = Append(stages, "get_pr_data")
    /\ net' = net \o FetchRequests(github_token.val)
    /\ pc' = "generate"
    /\ UNCHANGED <<inv, env_token, github_token, raised, result, endpoint, waited>>
    /\ UNCHANGED fn_vars

\* ------------------------------------------------------------------------
\* summarize_pr: the generators
\* ------------------------------------------------------------------------

\* a dispatch whose else branch is the hosted LLM generator
GeneratorOfLlmDefault(provider) ==
    IF provider = "ollama" THEN "summarize_with_ollama"
    ELSE "summarize_with_openai"

\* the branch of lines 358-370 a provider string takes
GeneratorOf(provider) ==
    IF provider = "openai" THEN "summarize_with_openai"
    ELSE IF provider = "ollama" THEN "summarize_with_ollama"
    ELSE "summarize_with_basic"

\* summarize_with_openai with the openai package not importable
OpenAIImportError ==
    /\ pc = "generate"
    /\ GeneratorOf(inv.provider) = "summarize_with_openai"
    /\ stages' = Append(stages, "summarize_with_openai")
    /\ Raise(Exc("ImportError", "openai package not installed",
                 "summarize_with_openai", "none"))
    /\ UNCHANGED <<inv, env_token, github_token, pr_data, result, net, endpoint, waited>>
    /\ UNCHANGED fn_vars

\* api_key or os.getenv("OPENAI_API_KEY")
OpenAIKey(arg, env) == IF TruthyToken(arg) THEN arg ELSE env

OpenAIEnvKeys == {None, Some("sk-env")}

\* lines 162-164: no API key anywhere
OpenAIMissingKey ==
    /\ pc = "generate"
    /\ GeneratorOf(inv.provider) = "summarize_with_openai"
    /\ \E env \in OpenAIEnvKeys : ~TruthyToken(OpenAIKey(inv.kwargs.api_key, env))
    /\ stages' = Append(stages, "summarize_with_openai")
    /\ Raise(Exc("ValueError", "OPENAI_API_KEY not found in environment or provided",
                 "summarize_with_openai", "none"))
    /\ UNCHANGED <<inv, env_token, github_token, pr_data, result, net, endpoint, waited>>
    /\ UNCHANGED fn_vars

\* client.chat.completions.create(...)
OpenAIRequest(api_key, prompt) ==
    [to          |-> "openai",
     api_key     |-> api_key,
     model       |-> "gpt-3.5-turbo",
     system      |-> "You are a helpful assistant that summarizes GitHub Pull Requests for code review.",
     prompt      |-> prompt,
     temperature |-> "0.3"]

\* lines 213-214: the request raised; the error is wrapped and raised again
OpenAIApiError ==
    /\ pc = "generate"
    /\ GeneratorOf(inv.provider) = "summarize_with_openai"
    /\ \E env \in OpenAIEnvKeys :
          /\ TruthyToken(OpenAIKey(inv.kwargs.api_key, env))
          /\ net' = Append(net, OpenAIRequest(OpenAIKey(inv.kwargs.api_key, env).val,
                                              OpenAIPrompt(pr_data.val)))
    /\ stages' = Append(stages, "summarize_with_openai")
    /\ \E cause \in {"AuthenticationError", "RateLimitError", "APIConnectionError"} :
          Raise(Exc("Exception", "OpenAI API error", "summarize_with_openai", cause))
    /\ UNCHANGED <<inv, env_token, github_token, pr_data, result, endpoint, waited>>
    /\ UNCHANGED fn_vars

\* line 212: return response.choices[0].message.content
OpenAICompletes ==
    /\ pc = "generate"
    /\ GeneratorOf(inv.provider) = "summarize_with_openai"
    /\ \E env \in OpenAIEnvKeys :
          /\ TruthyToken(OpenAIKey(inv.kwargs.api_key, env))
          /\ net' = Append(net, OpenAIRequest(OpenAIKey(inv.kwargs.api_key, env).val,
                                              OpenAIPrompt(pr_data.val)))
    /\ stages' = Append(stages, "summarize_with_openai")
    /\ result' = Returned("openai", "model text")
    /\ pc' = "done"
    /\ UNCHANGED <<inv, env_token, github_token, pr_data, raised, endpoint, waited>>
    /\ UNCHANGED fn_vars

\* summarize_with_ollama with the requests package not importable
OllamaImportError ==
    /\ pc = "generate"
    /\ GeneratorOf(inv.provider) = "summarize_with_ollama"
    /\ stages' = Append(stages, "summarize_with_ollama")
    /\ Raise(Exc("ImportError", "requests package not installed",
                 "summarize_with_ollama", "none"))
    /\ UNCHANGED <<inv, env_token, github_token, pr_data, result, net, endpoint, waited>>
    /\ UNCHANGED fn_vars

\* kwargs.get(key, default)
KwargOr(value, default) == IF value.some THEN value.val ELSE default

\* a request timeout a quarter as long
OllamaTimeoutShort == 120 \div 4

\* timeout=120
OllamaTimeout == 120

\* requests.post(f"{base_url}/api/generate", json={...}, timeout=120)
OllamaRequest(base_url, model, prompt) ==
    [to      |-> "ollama",
     url     |-> <<base_url, "/api/generate">>,
     model   |-> model,
     prompt  |-> prompt,
     stream  |-> FALSE,
     timeout |-> OllamaTimeout]

\* how the local endpoint meets a request: it refuses the connection, it
\* never answers, or it serves a response
Endpoints == {"refusing", "silent", "serving"}

\* line 256: the request leaves
OllamaSend ==
    /\ pc = "generate"
    /\ GeneratorOf(inv.provider) = "summarize_with_ollama"
    /\ stages' = Append(stages, "summarize_with_ollama")
    /\ net' = Append(net, OllamaRequest(KwargOr(inv.kwargs.base_url, "http://localhost:11434"),
                                        KwargOr(inv.kwargs.model, "llama2"),
                                        OllamaPrompt(pr_data.val)))
    /\ endpoint' \in Endpoints
    /\ waited' = 0
    /\ pc' = "ollama_wait"
    /\ UNCHANGED <<inv, env_token, github_token, pr_data, raised, result>>
    /\ UNCHANGED fn_vars

\* time passes while requests.post blocks
OllamaTick ==
    /\ pc = "ollama_wait"
    /\ waited < OllamaTimeout
    /\ waited' = Min(waited + TickSeconds, OllamaTimeout)
    /\ UNCHANGED <<inv, env_token, pc, github_token, pr_data, raised, result, stages, net,
                   endpoint>>
    /\ UNCHANGED fn_vars

\* lines 268-269: except Exception as e: raise Exception(f"Ollama API error: {e}")
OllamaError(cause) == Exc("Exception", "Ollama API error", "summarize_with_ollama", cause)

\* the connection is refused: requests.post raises ConnectionError at once
OllamaRefused ==
    /\ pc = "ollama_wait"
    /\ endpoint = "refusing"
    /\ waited < OllamaTimeout
    /\ Raise(OllamaError("ConnectionError"))
    /\ UNCHANGED <<inv, env_token, github_token, pr_data, result, stages, net, endpoint,
                   waited>>
    /\ UNCHANGED fn_vars

\* nothing came back within the timeout: requests.post raises Timeout
OllamaTimesOut ==
    /\ pc = "ollama_wait"
    /\ waited >= OllamaTimeout
    /\ Raise(OllamaError("Timeout"))
    /\ UNCHANGED <<inv, env_token, github_token, pr_data, result, stages, net, endpoint,
                   waited>>
    /\ UNCHANGED fn_vars

\* the responses a serving endpoint may give: json is None for a body that
\* is not JSON, and its response field may be missing
OllamaResponses ==
    {[status |-> 200, json |-> Some([response |-> Some("model text")])],
     [status |-> 200, json |-> Some([response |-> None])],
     [status |-> 200, json |-> None],
     [status |-> 500, json |-> Some([response |-> None])]}

\* lines 265-267 on a response that does not pass them
OllamaBadResponse ==
    /\ pc = "ollama_wait"
    /\ endpoint = "serving"
    /\ waited < OllamaTimeout
    /\ \E r \in OllamaResponses :
          \/ /\ r.status >= 400
             /\ Raise(OllamaError("HTTPError"))
          \/ /\ r.status < 400
             /\ ~r.json.some
             /\ Raise(OllamaError("JSONDecodeError"))
    /\ UNCHANGED <<inv, env_token, github_token, pr_data, result, stages, net, endpoint,
                   waited>>
    /\ UNCHANGED fn_vars

\* line 267: return response.json().get("response", "")
OllamaCompletes ==
    /\ pc = "ollama_wait"
    /\ endpoint = "serving"
    /\ waited < OllamaTimeout
    /\ \E r \in OllamaResponses :
          /\ r.status < 400
          /\ r.json.some
          /\ result' = Returned("ollama", KwargOr(r.json.val.response, ""))
    /\ pc' = "done"
    /\ UNCHANGED <<inv, env_token, github_token, pr_data, raised, stages, net, endpoint,
                   waited>>
    /\ UNCHANGED fn_vars

\* line 370: return summarize_with_basic(pr_data)
BasicSummary ==
    /\ pc = "generate"
    /\ GeneratorOf(inv.provider) = "summarize_with_basic"
    /\ stages' = Append(stages, "summarize_with_basic")
    /\ result' = Returned("basic", summarize_with_basic(pr_data.val))
    /\ pr_data' = Some(SnapshotAfterBasic(pr_data.val))
    /\ pc' = "done"
    /\ UNCHANGED <<inv, env_token, github_token, raised, net, endpoint, waited>>
    /\ UNCHANGED fn_vars

\* an orchestrator that answers a failed LLM generator with the template
\* summary
FallBackToBasic(e, data) ==
    IF e.stage \in {"summarize_with_openai", "summarize_with_ollama"} /\ data.some
    THEN [result |-> Returned("basic", summarize_with_basic(data.val)),
          called |-> <<"summarize_with_basic">>]
    ELSE [result |-> Raised(e), called |-> <<>>]

\* summarize_pr has no try/except: an exception of a stage leaves the call
\* as it is, and nothing more is called
Unhandled(e, data) == [result |-> Raised(e), called |-> <<>>]

\* the exception in flight reaches the caller of summarize_pr
Propagate ==
    /\ pc = "raised"
    /\ result' = Unhandled(raised.val, pr_data).result
    /\ stages' = stages \o Unhandled(raised.val, pr_data).called
    /\ pc' = "done"
    /\ UNCHANGED <<inv, env_token, github_token, pr_data, raised, net, endpoint, waited>>
    /\ UNCHANGED fn_vars

Next ==
    \/ MissingCredential
    \/ ResolveCredential
    \/ FetchImportError
    \/ FetchUpstreamError
    \/ FetchPullRequest
    \/ OpenAIImportError
    \/ OpenAIMissingKey
    \/ OpenAIApiError
    \/ OpenAICompletes
    \/ OllamaImportError
    \/ OllamaSend
    \/ OllamaTick
    \/ OllamaRefused
    \/ OllamaTimesOut
    \/ OllamaBadResponse
    \/ OllamaCompletes
    \/ BasicSummary
    \/ Propagate

Spec == Init /\ [][Next]_vars

\* ------------------------------------------------------------------------
\* The heuristics and generators called directly on a snapshot
\* ------------------------------------------------------------------------

Functions == {"assess_risk_level", "suggest_reviewers", "summarize_with_basic", "llm_prompt"}

FnInit ==
    /\ inv = [provider |-> "basic", github_token |-> None, kwargs |-> NoKwargs]
    /\ env_token = None
    /\ pc = "direct"
    /\ github_token = None
    /\ pr_data \in {Some(get_pr_data(pr)) : pr \in AllPulls}
    /\ raised = None
    /\ result = Pending
    /\ stages = <<>>
    /\ net = <<>>
    /\ endpoint = "unknown"
    /\ waited = 0
    /\ fn \in Functions
    /\ risk = None
    /\ reviewers = None
    /\ prompt_openai = None
    /\ prompt_ollama = None
    /\ runs = <<>>

CallAssessRisk ==
    /\ fn = "assess_risk_level"
    /\ ~risk.some
    /\ risk' = Some(assess_risk_level(pr_data.val.files, pr_data.val.title,
                                      pr_data.val.body))
    /\ UNCHANGED <<pr_data, fn, reviewers, prompt_openai, prompt_ollama, runs>>
    /\ UNCHANGED orch_vars

CallSuggestReviewers ==
    /\ fn = "suggest_reviewers"
    /\ ~reviewers.some
    /\ reviewers' = Some(suggest_reviewers(pr_data.val.files))
    /\ UNCHANGED <<pr_data, fn, risk, prompt_openai, prompt_ollama, runs>>
    /\ UNCHANGED orch_vars

\* one more summarize_with_basic(pr_data) on the same dict
CallBasic ==
    /\ fn = "summarize_with_basic"
    /\ Len(runs) < MaxRuns
    /\ runs' = Append(runs, summarize_with_basic(pr_data.val))
    /\ pr_data' = Some(SnapshotAfterBasic(pr_data.val))
    /\ UNCHANGED <<fn, risk, reviewers, prompt_openai, prompt_ollama>>
    /\ UNCHANGED orch_vars

\* summarize_with_openai up to the prompt it sends
CallOpenAIPrompt ==
    /\ fn = "llm_prompt"
    /\ ~prompt_openai.some
    /\ prompt_openai' = Some(OpenAIPrompt(pr_data.val))
    /\ UNCHANGED <<pr_data, fn, risk, reviewers, prompt_ollama, runs>>
    /\ UNCHANGED orch_vars

\* summarize_with_ollama up to the prompt it sends
CallOllamaPrompt ==
    /\ fn = "llm_prompt"
    /\ ~prompt_ollama.some
    /\ prompt_ollama' = Some(OllamaPrompt(pr_data.val))
    /\ UNCHANGED <<pr_data, fn, risk, reviewers, prompt_openai, runs>>
    /\ UNCHANGED orch_vars

FnNext ==
    \/ CallAssessRisk
    \/ CallSuggestReviewers
    \/ CallBasic
    \/ CallOpenAIPrompt
    \/ CallOllamaPrompt

FnSpec == FnInit /\ [][FnNext]_vars

\* ------------------------------------------------------------------------
\* Properties
\* ------------------------------------------------------------------------

\* neither the github_token argument nor GITHUB_TOKEN holds a credential
CredentialAbsent == ~TruthyToken(inv.github_token) /\ ~TruthyToken(env_token)

MissingCredentialError ==
    Exc("ValueError", "GITHUB_TOKEN not found in environment or provided",
        "summarize_pr", "none")

\* C1: a summarize_pr call with no credential in the argument and none in
\* the environment fails with the configuration error (ValueError), and up
\* to and including the moment the error reaches the caller no stage has
\* been called and no network request has been sent, whatever the provider.
C1_NoCredentialFailsBeforeNetwork ==
    CredentialAbsent =>
        /\ net = <<>>
        /\ stages = <<>>
        /\ pr_data = None
        /\ pc \in {"start", "raised", "done"}
        /\ pc = "raised" => raised = Some(MissingCredentialError)
        /\ pc = "done" => result = Raised(MissingCredentialError)

C1_Witness ==
    /\ CredentialAbsent
    /\ inv.provider = "ollama"
    /\ inv.github_token = Some("")
    /\ pc = "done"
    /\ result = Raised(MissingCredentialError)

\* the keywords of a list that occur in the lowercased title, body or a
\* lowercased filename of snapshot d
Hits(keywords, d) ==
    {i \in DOMAIN keywords :
        \/ Contains(Lower(d.title), keywords[i])
        \/ Contains(Lower(d.body), keywords[i])
        \/ \E j \in DOMAIN d.files : Contains(Lower(d.files[j].filename), keywords[i])}

HighHits(d) == Cardinality(Hits(high_risk_keywords, d))

MediumHits(d) == Cardinality(Hits(medium_risk_keywords, d))

AssessedDirectly == pc = "direct" /\ fn = "assess_risk_level" /\ risk.some

\* C2: whenever at least one high-risk keyword occurs in the lowercased
\* title, body or filenames, assess_risk_level returns High, whatever the
\* medium-risk keyword count and the number of critical-extension files.
C2_HighKeywordGivesHigh ==
    (AssessedDirectly /\ HighHits(pr_data.val) > 0) => risk.val[1] = "High"

C2_Witness ==
    /\ AssessedDirectly
    /\ HighHits(pr_data.val) > 0
    /\ MediumHits(pr_data.val) = 0
    /\ CriticalFiles(pr_data.val.files) = 0
    /\ risk.val[1] = "High"

\* C3: the decision is first match wins: High when a high-risk keyword hits
\* or more than 10 files are critical; otherwise Medium exactly when more
\* than 2 medium-risk keywords hit or more than 5 files are critical;
\* otherwise Low.
C3_FirstMatchWins ==
    AssessedDirectly =>
        LET h == HighHits(pr_data.val)
            m == MediumHits(pr_data.val)
            c == CriticalFiles(pr_data.val.files)
        IN  risk.val[1] = IF h > 0 \/ c > 10 THEN "High"
                          ELSE IF m > 2 \/ c > 5 THEN "Medium"
                          ELSE "Low"

C3_Witness ==
    /\ AssessedDirectly
    /\ HighHits(pr_data.val) = 0
    /\ MediumHits(pr_data.val) = 0
    /\ CriticalFiles(pr_data.val.files) = 6
    /\ risk.val[1] = "Medium"

TeamOrder == <<"security-team", "qa-team", "frontend-team", "backend-team">>

TeamPosition(label) == CHOOSE i \in DOMAIN TeamOrder : TeamOrder[i] = label

\* some lowercased filename of the list contains one of the keywords
SomeFileHas(files, keywords) ==
    \E i \in DOMAIN files : \E k \in keywords : Contains(Lower(files[i].filename), k)

AllFourChecksSucceed(files) ==
    /\ SomeFileHas(files, {KW_auth, KW_security})
    /\ SomeFileHas(files, {KW_test})
    /\ SomeFileHas(files, {KW_frontend, KW_ui})
    /\ SomeFileHas(files, {KW_backend, KW_api})

SuggestedDirectly == pc = "direct" /\ fn = "suggest_reviewers" /\ reviewers.some

\* C4: suggest_reviewers returns at most 3 labels, all of them team labels
\* in the check order security, qa, frontend, backend (so none repeats);
\* when all four checks succeed it returns the first three.
C4_AtMostThreeInOrder ==
    SuggestedDirectly =>
        LET r == reviewers.val
        IN  /\ Len(r) <= 3
            /\ \A i \in DOMAIN r : r[i] \in Range(TeamOrder)
            /\ \A i, j \in DOMAIN r : i < j => TeamPosition(r[i]) < TeamPosition(r[j])
            /\ AllFourChecksSucceed(pr_data.val.files) =>
                   r = <<"security-team", "qa-team", "frontend-team">>

C4_Witness ==
    /\ SuggestedDirectly
    /\ AllFourChecksSucceed(pr_data.val.files)
    /\ reviewers.val = <<"security-team", "qa-team", "frontend-team">>

LlmRequests == {i \in DOMAIN net : net[i].to # "github"}

GithubRequests == {i \in DOMAIN net : net[i].to = "github"}

\* C5: an exception raised by the fetch or by the selected generator is
\* what the caller of summarize_pr gets; no stage is called twice, no
\* generator but the selected one is called, and no request is sent again.
C5_ExceptionsPropagate ==
    /\ raised.some => pc \in {"raised", "done"}
    /\ (pc = "done" /\ raised.some) => result = Raised(raised.val)
    /\ \A i, j \in DOMAIN stages : i < j => stages[i] # stages[j]
    /\ \A i \in DOMAIN stages :
          /\ stages[i] = "summarize_with_openai" => inv.provider = "openai"
          /\ stages[i] = "summarize_with_ollama" => inv.provider = "ollama"
          /\ stages[i] = "summarize_with_basic" => inv.provider \notin {"openai", "ollama"}
    /\ Cardinality(LlmRequests) <= 1
    /\ Cardinality(GithubRequests) <= 4

C5_Witness ==
    /\ pc = "done"
    /\ raised.some
    /\ raised.val.stage = "summarize_with_ollama"
    /\ raised.val.cause = "HTTPError"
    /\ result = Raised(raised.val)
    /\ stages = <<"get_pr_data", "summarize_with_ollama">>

FetchCalls == {i \in DOMAIN stages : stages[i] = "get_pr_data"}

\* the stages of one call in sequence: the fetch is the first stage called
\* and is called at most once; at most one request goes to an LLM backend,
\* after every request of a fetch that returned a snapshot, and only to the
\* backend of an openai or ollama provider
StagesInSequence ==
    /\ Cardinality(FetchCalls) <= 1
    /\ stages # <<>> => stages[1] = "get_pr_data"
    /\ Cardinality(LlmRequests) <= 1
    /\ \A i \in LlmRequests :
          /\ inv.provider \in {"openai", "ollama"}
          /\ net[i].to = inv.provider
          /\ pr_data.some
          /\ Cardinality(GithubRequests) = 4
          /\ \A j \in GithubRequests : j < i
    /\ inv.provider \notin {"openai", "ollama"} => LlmRequests = {}

\* C6 as stated: in every invocation the fetch happens first and exactly
\* once, followed by at most one further network call, made only for the
\* openai or ollama provider after a successful fetch.
C6_EveryInvocationFetchesOnce ==
    /\ StagesInSequence
    /\ pc = "done" => Cardinality(FetchCalls) = 1

\* C6 amended: in every invocation that resolves a credential the fetch
\* happens first and exactly once, followed by at most one further network
\* call, made only for the openai or ollama provider after a successful
\* fetch; an invocation without a credential makes no fetch at all.
C6_FetchThenAtMostOneCall ==
    /\ StagesInSequence
    /\ (pc \in {"generate", "ollama_wait", "done"} /\ ~CredentialAbsent) =>
           Cardinality(FetchCalls) = 1
    /\ CredentialAbsent => FetchCalls = {}

C6_Witness ==
    /\ pc = "done"
    /\ inv.provider = "openai"
    /\ result.kind = "returned"
    /\ stages = <<"get_pr_data", "summarize_with_openai">>
    /\ Cardinality(GithubRequests) = 4
    /\ LlmRequests = {5}

ConfiguredTimeoutSeconds == 120

\* the ollama request was sent and found no reachable endpoint
EndpointUnreachable == inv.provider = "ollama" /\ endpoint \in {"refusing", "silent"}

GenerationFailed ==
    /\ pc \in {"raised", "done"}
    /\ raised.some
    /\ raised.val.stage = "summarize_with_ollama"

\* C7 as stated: with no reachable endpoint the generation error is raised
\* after the 120-second timeout has elapsed, not before.
C7_ErrorOnlyAfterTimeout ==
    (EndpointUnreachable /\ GenerationFailed) => waited >= ConfiguredTimeoutSeconds

\* C7 amended: with no reachable endpoint the generation stage never
\* returns a summary and raises the generation error when the request
\* fails: only an endpoint that never answers is waited for, and its
\* timeout error comes once the 120 seconds have elapsed, not before; a
\* refused connection raises without waiting for the timeout.
C7_ErrorWhenRequestFails ==
    EndpointUnreachable =>
        /\ pc \in {"ollama_wait", "raised", "done"}
        /\ pc = "done" => (result.kind = "raised" /\ GenerationFailed)
        /\ GenerationFailed =>
              /\ raised.val.type = "Exception"
              /\ raised.val.msg = "Ollama API error"
              /\ raised.val.cause \in {"ConnectionError", "Timeout"}
              /\ raised.val.cause = "Timeout" => waited >= ConfiguredTimeoutSeconds
              /\ endpoint = "silent" => raised.val.cause = "Timeout"

C7_Witness ==
    /\ EndpointUnreachable
    /\ endpoint = "silent"
    /\ pc = "done"
    /\ result.kind = "raised"
    /\ raised.val.cause = "Timeout"
    /\ waited = ConfiguredTimeoutSeconds

LineCount(text) ==
    IF text = <<>> THEN 0
    ELSE 1 + Cardinality({i \in DOMAIN text : text[i] = "\n"})

\* C9: both LLM generators build the same prompt: the title, the first 500
\* characters of the body, the author, the counts, one line for each of
\* the first 20 files and of the first 10 commits in fetch order, and the
\* same instruction block of six sections.
C9_SamePrompt ==
    (pc = "direct" /\ prompt_openai.some /\ prompt_ollama.some) =>
        LET d      == pr_data.val
            p      == prompt_openai.val
            files  == SubSeq(d.files, 1, Min(20, Len(d.files)))
            commits == SubSeq(d.commits, 1, Min(10, Len(d.commits)))
        IN  /\ prompt_ollama.val = p
            /\ p.title = d.title
            /\ p.description = SubSeq(d.body, 1, Min(500, Len(d.body)))
            /\ p.author = d.author
            /\ p.files_changed = <<Str(d.changed_files), Str(d.additions), Str(d.deletions)>>
            /\ p.files = Join(NEWLINE, [i \in DOMAIN files |-> FileLine(files[i])])
            /\ LineCount(p.files) = Len(files)
            /\ p.commits = Join(NEWLINE, [i \in DOMAIN commits |-> CommitLine(commits[i])])
            /\ LineCount(p.commits) = Len(commits)
            /\ Len(p.instructions) = 8

C9_Witness ==
    /\ pc = "direct"
    /\ prompt_openai.some
    /\ prompt_ollama.some
    /\ prompt_openai = prompt_ollama
    /\ Len(pr_data.val.files) > 20
    /\ Len(pr_data.val.commits) > 10
    /\ Len(pr_data.val.body) > 500
    /\ Len(prompt_ollama.val.description) = 500

\* the reasoning interpolates the count of this name with this value
Names(reasoning, name, value) ==
    \E i \in DOMAIN reasoning.values : reasoning.values[i] = <<name, Str(value)>>

\* C10: the reasoning names the counts that triggered the branch: for Medium
\* the medium-risk keyword count when it exceeds 2 and the critical file
\* count when it exceeds 5, for High the high-risk keyword hits.
C10_ReasoningNamesTriggers ==
    AssessedDirectly =>
        LET h == HighHits(pr_data.val)
            m == MediumHits(pr_data.val)
            c == CriticalFiles(pr_data.val.files)
            reasoning == risk.val[2]
        IN  /\ (risk.val[1] = "Medium" /\ m > 2) => Names(reasoning, "medium_risk_count", m)
            /\ (risk.val[1] = "Medium" /\ c > 5) => Names(reasoning, "critical_files", c)
            /\ (risk.val[1] = "High" /\ h > 0) => Names(reasoning, "high_risk_count", h)

ChangeSize(f) == f.additions + f.deletions

\* file j comes before file i in the Major Files order: it changed more
\* lines, or as many and was fetched earlier
ListedBefore(files, j, i) ==
    \/ ChangeSize(files[j]) > ChangeSize(files[i])
    \/ ChangeSize(files[j]) = ChangeSize(files[i]) /\ j < i

\* the fetch positions of the files the Major Files lines show, line by
\* line (the filenames of a snapshot are distinct)
ShownPositions(files, major) ==
    [p \in DOMAIN major |-> CHOOSE i \in DOMAIN files : files[i].filename = major[p][1]]

SummarizedDirectly == pc = "direct" /\ fn = "summarize_with_basic" /\ runs # <<>>

\* C11: the Major Files section has at most 10 lines, one per file, in
\* descending order of additions+deletions; files of equal size keep their
\* fetch order, and a file is left out only if at least 10 files come
\* before it in that order.
C11_MajorFilesStableTopTen ==
    SummarizedDirectly =>
        LET files == pr_data.val.files
            major == runs[1].major_files
            shown == ShownPositions(files, major)
        IN  /\ Len(major) <= 10
            /\ \A p \in DOMAIN major :
                  /\ \E i \in DOMAIN files : files[i].filename = major[p][1]
                  /\ major[p] = <<files[shown[p]].filename, files[shown[p]].status,
                                  Str(files[shown[p]].additions),
                                  Str(files[shown[p]].deletions)>>
            /\ \A p, q \in DOMAIN major :
                  p < q => ListedBefore(files, shown[p], shown[q])
            /\ \A i \in DOMAIN files :
                  (\A p \in DOMAIN major : shown[p] # i) =>
                      Cardinality({j \in DOMAIN files : ListedBefore(files, j, i)}) >= 10

\* more than 10 files, two shown files of equal size, and a file left out
\* that is as large as one shown
C11_Witness ==
    /\ SummarizedDirectly
    /\ Len(pr_data.val.files) > 10
    /\ Len(runs[1].major_files) = 10
    /\ LET files == pr_data.val.files
           shown == ShownPositions(files, runs[1].major_files)
       IN  /\ \E p \in 1..9 :
                 /\ ChangeSize(files[shown[p]]) = ChangeSize(files[shown[p + 1]])
                 /\ shown[p] < shown[p + 1]
           /\ \E i \in DOMAIN files :
                 /\ \A p \in DOMAIN shown : shown[p] # i
                 /\ ChangeSize(files[i]) = ChangeSize(files[shown[10]])

====
